---- MODULE Spec2Model ----
(***************************************************************************)
(* Model of the coroutine primitives of the repository:                    *)
(*   - src/coroutine/ZExample3.cpp : Result<T>, TaskPromise<T>, Task<T>    *)
(*   - src/coroutine/ZCoroutine.cpp: async_manual_reset_event              *)
(* Client threads call the public member functions of one TaskPromise     *)
(* (SpecTask, SpecRetrieve, SpecSubscribe, SpecCompose) or of one event   *)
(* (SpecEvent).                                                            *)
(***************************************************************************)
EXTENDS Integers, Sequences, FiniteSets, TLC

\* ---------------------------------------------------------------- bounds
NumGetters == 2
NumSubscribers == 2
MaxCompletions == 2
MaxValue == 2
NumWaiters == 2
NumSetters == 2
NumResults == 2
MaxReads == 2
NumHandles == 2
MaxYields == 3
MaxPulls == 5

\* ------------------------------------------------------- program constants
\* T{} : the value-initialised m_tValue of a Result built from an exception
DefaultValue == 0
\* nullptr in the event's state cell
NULL == 0

\* =========================================================================
\*                         Task  (ZExample3.cpp)
\* =========================================================================
VARIABLES
    m_tResult,                  \* std::optional<Result<T>>
    m_lMutex,                   \* owner of the std::mutex, or NoThread
    m_conCompletion,            \* threads blocked in m_conCompletion.wait
    m_listCompletionCallbacks,  \* std::list of queued callbacks
    pc,                         \* position of every client thread
    ret,                        \* what GetResult gave each getter
    value,                      \* OnCompleted's local copy `value`
    seen,                       \* the slot as OnCompleted found it under the lock
    registered,                 \* the callbacks in the order push_back took them
    func,                       \* the callback each subscriber passed
    esc,                        \* exception that left OnCompleted, per subscriber
    calls,                      \* every callback invocation, in order
    completions                 \* completion calls finished so far

VARIABLES
    m_state,                    \* std::atomic<void*> of the event
    m_next,                     \* awaiter::m_next of every awaiter node
    oldValue,                   \* await_suspend's local oldValue
    wpc,                        \* position of every awaiting coroutine
    spc,                        \* position of every thread calling set()
    waiters,                    \* set()'s local `waiters`
    next,                       \* set()'s local `next`
    rpc,                        \* position of the thread calling reset()
    resumes,                    \* every resume() call: <<awaiter, setter>>
    regs,                       \* awaiters in the order their await_suspend returned true
    expected                    \* reset()'s local oldValue after the compare-exchange

taskVars == <<m_tResult, m_lMutex, m_conCompletion, m_listCompletionCallbacks,
              pc, ret, value, seen, registered, func, esc, calls, completions>>
VARIABLES
    results,                    \* Result<int> objects built by the harness
    built,                      \* what each of them was constructed from
    reads                       \* what each GetOrThrow call on them gave

eventVars == <<m_state, m_next, oldValue, wpc, spc, waiters, next, rpc, resumes,
               regs, expected>>
VARIABLES
    m_coroHandle,               \* the coroutine_handle each Task object holds
    object,                     \* lifetime of each Task object
    frame                       \* the coroutine frame, which holds the TaskPromise

VARIABLES
    body,                       \* the values the generator coroutine co_yields, in order
    handle,                     \* Generator::handle: where the coroutine is suspended
    promise,                    \* promise_type: value and is_ready
    pulls                       \* every has_next() and next() call with its outcome

resultVars == <<results, built, reads>>
handleVars == <<m_coroHandle, object, frame>>
genVars == <<body, handle, promise, pulls>>
vars == <<taskVars, eventVars, resultVars, handleVars, genVars>>

\* ------------------------------------------------------------ threads
Completer == <<"completer", 1>>
Getters == {<<"getter", i>> : i \in 1..NumGetters}
Subscribers == {<<"subscriber", i>> : i \in 1..NumSubscribers}
Threads == {Completer} \cup Getters \cup Subscribers
NoThread == <<"none", 0>>

\* ------------------------------------------------------------ Result<T>
Values == 1..MaxValue
NoException == "nullptr"
\* a captured exception is derived from std::exception, or it is not
Exceptions == {"std_exception", "other_exception"}

\* Result(T&& value)
ResultOfValue(v) == [m_tValue |-> v, m_pException |-> NoException]
\* a Result that loses the exception it is built from
ResultOfException_Dropped(e) == ResultOfValue(DefaultValue)

\* Result(std::exception_ptr&& e)
ResultOfException(e) == [m_tValue |-> DefaultValue, m_pException |-> e]

\* outcome of a call: it returns a value, or an exception leaves it
Returns(v) == [kind |-> "returns", v |-> v, e |-> NoException]
Throws(e) == [kind |-> "throws", v |-> DefaultValue, e |-> e]
NotReturned == [kind |-> "none", v |-> DefaultValue, e |-> NoException]
Aborted == [kind |-> "abort", v |-> DefaultValue, e |-> NoException]

\* a GetOrThrow that never looks at m_pException
GetOrThrow_NoThrow(r) == Returns(r.m_tValue)

\* T GetOrThrow(): rethrow m_pException if it is set, else return m_tValue
GetOrThrow(r) ==
    IF r.m_pException # NoException THEN Throws(r.m_pException)
    ELSE Returns(r.m_tValue)

\* ---- Result objects on their own: each is constructed once, from a value
\* or from an exception_ptr, and then read with GetOrThrow
ResultIds == 1..NumResults
NoInput == [kind |-> "none", v |-> DefaultValue, e |-> NoException]
FromValue(v) == [kind |-> "value", v |-> v, e |-> NoException]
FromException(e) == [kind |-> "exception", v |-> DefaultValue, e |-> e]

\* storage of an object that no constructor has run on yet
InitResult ==
    /\ results = [i \in ResultIds |-> ResultOfValue(DefaultValue)]
    /\ built = [i \in ResultIds |-> NoInput]
    /\ reads = [i \in ResultIds |-> <<>>]

\* Result<int> r(std::move(v))
Result_FromValue(i, v) ==
    /\ built[i] = NoInput
    /\ results' = [results EXCEPT ![i] = ResultOfValue(v)]
    /\ built' = [built EXCEPT ![i] = FromValue(v)]
    /\ UNCHANGED reads

\* Result<int> r(std::move(e)), e a non-null exception_ptr
Result_FromException(i, e) ==
    /\ built[i] = NoInput
    /\ results' = [results EXCEPT ![i] = ResultOfException(e)]
    /\ built' = [built EXCEPT ![i] = FromException(e)]
    /\ UNCHANGED reads

\* r.GetOrThrow(): the members are only read
Result_GetOrThrow(i) ==
    /\ built[i] # NoInput
    /\ Len(reads[i]) < MaxReads
    /\ reads' = [reads EXCEPT ![i] = Append(reads[i], GetOrThrow(results[i]))]
    /\ UNCHANGED <<results, built>>

\* std::optional<Result<T>>: disengaged, or holding a Result
Nullopt == [has |-> FALSE, r |-> ResultOfValue(DefaultValue)]
Some(r) == [has |-> TRUE, r |-> r]

\* ------------------------------------------------- callbacks and wrappers
\* what the user's handler f does when it is called
Behaviours == {"returns", "throws_std", "throws_other"}
HandlerThrow(behav) ==
    IF behav = "throws_std" THEN "std_exception"
    ELSE IF behav = "throws_other" THEN "other_exception"
    ELSE NoException

\* the callable handed to OnCompleted: the caller's own (raw), or one of the
\* lambdas built by Then, Catching and Finally around the handler f
Kinds == {"raw", "then", "catching", "finally"}
NoFunc == [kind |-> "none", behav |-> "returns"]
Callback(kind, behav) == [kind |-> kind, behav |-> behav]

\* a run of a callable: was f called, with what, and what left the callable
Ran(called, v, e, out) == [called |-> called, v |-> v, e |-> e, esc |-> out]

\* catch (std::exception&) catches exactly the exceptions derived from it
CatchesStd(e) == e = "std_exception"

\* Task::Then's lambda: try { func(result.GetOrThrow()); } catch (std::exception&) {}
ThenWrapper(behav, r) ==
    LET o == GetOrThrow(r)
        thrown == IF o.kind = "throws" THEN o.e ELSE HandlerThrow(behav)
    IN Ran(o.kind = "returns", o.v, NoException,
           IF CatchesStd(thrown) THEN NoException ELSE thrown)

\* Task::Catching's lambda: try { result.GetOrThrow(); } catch (std::exception& e) { func(e); }
CatchingWrapper(behav, r) ==
    LET o == GetOrThrow(r)
    IN IF o.kind = "throws" /\ CatchesStd(o.e)
       THEN Ran(TRUE, DefaultValue, o.e, HandlerThrow(behav))
       ELSE Ran(FALSE, DefaultValue, NoException,
                IF o.kind = "throws" THEN o.e ELSE NoException)

\* Task::Finally's lambda: func();
FinallyWrapper(behav, r) ==
    Ran(TRUE, DefaultValue, NoException, HandlerThrow(behav))

\* a callable passed to OnCompleted directly receives the Result itself
RawCallback(behav, r) ==
    Ran(TRUE, r.m_tValue, r.m_pException, HandlerThrow(behav))

\* func(value): run the callable cb on the Result r
Invoke(cb, r) ==
    IF cb.kind = "then" THEN ThenWrapper(cb.behav, r)
    ELSE IF cb.kind = "catching" THEN CatchingWrapper(cb.behav, r)
    ELSE IF cb.kind = "finally" THEN FinallyWrapper(cb.behav, r)
    ELSE RawCallback(cb.behav, r)

\* one entry of the invocation log
Call(s, by, r, locked) ==
    [cb |-> s, by |-> by, arg |-> r, locked |-> locked, ran |-> Invoke(func[s], r)]

\* ------------------------------------------------------------ initial state
InitTask ==
    /\ m_tResult = Nullopt
    /\ m_lMutex = NoThread
    /\ m_conCompletion = {}
    /\ m_listCompletionCallbacks = <<>>
    /\ pc = [t \in Threads |-> "idle"]
    /\ ret = [g \in Getters |-> NotReturned]
    /\ value = [s \in Subscribers |-> Nullopt.r]
    /\ seen = [s \in Subscribers |-> Nullopt]
    /\ registered = <<>>
    /\ func = [s \in Subscribers |-> NoFunc]
    /\ esc = [s \in Subscribers |-> NoException]
    /\ calls = <<>>
    /\ completions = 0

\* notify_one() in place of notify_all(): a single waiter leaves wait
notify_one ==
    IF m_conCompletion = {} THEN {} ELSE {CHOOSE t \in m_conCompletion : TRUE}

\* m_conCompletion.notify_all(): the threads that leave wait; each has to take
\* the mutex again before its wait returns
notify_all == m_conCompletion

\* the state of the promise after a completion call stored r: the result is
\* assigned whatever the slot held, the waiters are notified, the lock_guard
\* releases the mutex; m_listCompletionCallbacks is not touched
Complete(c, r) ==
    /\ m_tResult' = Some(r)
    /\ m_conCompletion' = m_conCompletion \ notify_all
    /\ pc' = [t \in Threads |->
                IF t \in notify_all THEN "gr_woken"
                ELSE IF t = c THEN "idle" ELSE pc[t]]
    /\ m_lMutex' = NoThread
    /\ completions' = completions + 1
    /\ UNCHANGED <<m_listCompletionCallbacks, ret, value, seen, registered, func, esc, calls>>

\* std::lock_guard lock(m_lMutex) of return_value
ReturnValue_Lock(c) ==
    /\ pc[c] = "idle"
    /\ completions < MaxCompletions
    /\ m_lMutex = NoThread
    /\ m_lMutex' = c
    /\ pc' = [pc EXCEPT ![c] = "rv_body"]
    /\ UNCHANGED <<m_tResult, m_conCompletion, m_listCompletionCallbacks,
                   ret, value, seen, registered, func, esc, calls, completions>>

\* return_value(value): m_tResult = Result<T>(std::move(value)); notify_all
return_value(c, v) ==
    /\ pc[c] = "rv_body"
    /\ Complete(c, ResultOfValue(v))

\* std::lock_guard lock(m_lMutex) of unhandled_exception
UnhandledException_Lock(c) ==
    /\ pc[c] = "idle"
    /\ completions < MaxCompletions
    /\ m_lMutex = NoThread
    /\ m_lMutex' = c
    /\ pc' = [pc EXCEPT ![c] = "ue_body"]
    /\ UNCHANGED <<m_tResult, m_conCompletion, m_listCompletionCallbacks,
                   ret, value, seen, registered, func, esc, calls, completions>>

\* unhandled_exception(): m_tResult = Result<T>(std::current_exception()); notify_all
unhandled_exception(c, e) ==
    /\ pc[c] = "ue_body"
    /\ Complete(c, ResultOfException(e))

\* ------------------------------------------------------------ GetResult
\* std::unique_lock lock(m_lMutex)
GetResult_Lock(g) ==
    /\ pc[g] = "idle"
    /\ m_lMutex = NoThread
    /\ m_lMutex' = g
    /\ pc' = [pc EXCEPT ![g] = "gr_check"]
    /\ UNCHANGED <<m_tResult, m_conCompletion, m_listCompletionCallbacks,
                   ret, value, seen, registered, func, esc, calls, completions>>

\* if (!m_tResult.has_value()) m_conCompletion.wait(lock): wait releases the
\* mutex and blocks; the test is made once, before the wait
GetResult_Check(g) ==
    /\ pc[g] = "gr_check"
    /\ IF ~m_tResult.has
       THEN /\ m_lMutex' = NoThread
            /\ m_conCompletion' = m_conCompletion \cup {g}
            /\ pc' = [pc EXCEPT ![g] = "gr_wait"]
       ELSE /\ pc' = [pc EXCEPT ![g] = "gr_read"]
            /\ UNCHANGED <<m_lMutex, m_conCompletion>>
    /\ UNCHANGED <<m_tResult, m_listCompletionCallbacks,
                   ret, value, seen, registered, func, esc, calls, completions>>

\* std::condition_variable::wait may return without any notification
GetResult_SpuriousWake(g) ==
    /\ pc[g] = "gr_wait"
    /\ m_conCompletion' = m_conCompletion \ {g}
    /\ pc' = [pc EXCEPT ![g] = "gr_spurious"]
    /\ UNCHANGED <<m_tResult, m_lMutex, m_listCompletionCallbacks,
                   ret, value, seen, registered, func, esc, calls, completions>>

\* wait takes the mutex again and returns; the code does not test again
GetResult_Reacquire(g) ==
    /\ pc[g] \in {"gr_woken", "gr_spurious"}
    /\ m_lMutex = NoThread
    /\ m_lMutex' = g
    /\ pc' = [pc EXCEPT ![g] = "gr_read"]
    /\ UNCHANGED <<m_tResult, m_conCompletion, m_listCompletionCallbacks,
                   ret, value, seen, registered, func, esc, calls, completions>>

\* m_tResult->GetOrThrow() on a disengaged optional is undefined: it may
\* return any int, throw any exception, or end the process
UndefinedRead ==
    {Returns(v) : v \in Values \cup {DefaultValue}}
        \cup {Throws(e) : e \in Exceptions} \cup {Aborted}

\* return m_tResult->GetOrThrow(); the unique_lock releases the mutex
GetResult_Return(g) ==
    /\ pc[g] = "gr_read"
    /\ IF m_tResult.has
       THEN ret' = [ret EXCEPT ![g] = GetOrThrow(m_tResult.r)]
       ELSE \E o \in UndefinedRead : ret' = [ret EXCEPT ![g] = o]
    /\ m_lMutex' = NoThread
    /\ pc' = [pc EXCEPT ![g] = "gr_done"]
    /\ UNCHANGED <<m_tResult, m_conCompletion, m_listCompletionCallbacks,
                   value, seen, registered, func, esc, calls, completions>>

\* ------------------------------------------------------------ OnCompleted
\* a call of OnCompleted(func), directly or through Then/Catching/Finally:
\* std::unique_lock lock(m_lMutex)
OnCompleted_Lock(s, cb) ==
    /\ pc[s] = "idle"
    /\ m_lMutex = NoThread
    /\ m_lMutex' = s
    /\ func' = [func EXCEPT ![s] = cb]
    /\ pc' = [pc EXCEPT ![s] = "oc_check"]
    /\ UNCHANGED <<m_tResult, m_conCompletion, m_listCompletionCallbacks,
                   ret, value, seen, registered, esc, calls, completions>>

\* OnCompleted without its test of the slot: every callback is queued
OnCompletedBranch_AlwaysQueue(opt) == "queue"

\* if (m_tResult.has_value()): which branch OnCompleted takes
OnCompletedBranch(opt) == IF opt.has THEN "call" ELSE "queue"

\* an OnCompleted that keeps its lock
lock_keep(s) == s

\* lock.unlock() before func(value), and the unique_lock's destructor at the
\* return of the else-branch: the owner of the mutex afterwards
lock_unlock(s) == NoThread

\* then-branch: value = m_tResult.value(); lock.unlock();
\* else-branch: m_listCompletionCallbacks.push_back(func); return (unlock)
OnCompleted_Check(s) ==
    /\ pc[s] = "oc_check"
    /\ seen' = [seen EXCEPT ![s] = m_tResult]
    /\ IF OnCompletedBranch(m_tResult) = "call"
       THEN /\ value' = [value EXCEPT ![s] = m_tResult.r]
            /\ pc' = [pc EXCEPT ![s] = "oc_call"]
            /\ UNCHANGED <<m_listCompletionCallbacks, registered>>
       ELSE /\ m_listCompletionCallbacks' = Append(m_listCompletionCallbacks, s)
            /\ registered' = Append(registered, s)
            /\ pc' = [pc EXCEPT ![s] = "oc_done"]
            /\ UNCHANGED value
    /\ m_lMutex' = lock_unlock(s)
    /\ UNCHANGED <<m_tResult, m_conCompletion, ret, func, esc, calls, completions>>

\* func(value): on the calling thread, after the unlock; an exception that
\* leaves func leaves OnCompleted
OnCompleted_Call(s) ==
    /\ pc[s] = "oc_call"
    /\ calls' = Append(calls, Call(s, s, value[s], m_lMutex = s))
    /\ esc' = [esc EXCEPT ![s] = Invoke(func[s], value[s]).esc]
    /\ pc' = [pc EXCEPT ![s] = "oc_done"]
    /\ UNCHANGED <<m_tResult, m_lMutex, m_conCompletion, m_listCompletionCallbacks,
                   ret, value, seen, registered, func, completions>>

\* ------------------------------------------------------- NotifyCallbacks
\* the callbacks NotifyCallbacks runs: the list in order, up to and including
\* the first one an exception leaves
RECURSIVE NotifyRun(_, _, _)
NotifyRun(list, by, r) ==
    IF list = <<>> THEN <<>>
    ELSE LET c == Call(Head(list), by, r, m_lMutex = by)
         IN IF c.ran.esc # NoException THEN <<c>>
            ELSE <<c>> \o NotifyRun(Tail(list), by, r)

\* private NotifyCallbacks(): value = m_tResult.value(); call every queued
\* callback; clear the list.  It has no caller: neither return_value nor
\* unhandled_exception nor any other function of the repository calls it, so
\* it is no action of the program.
NotifyCallbacks(t) ==
    /\ m_tResult.has
    /\ LET run == NotifyRun(m_listCompletionCallbacks, t, m_tResult.r)
       IN /\ calls' = calls \o run
          /\ m_listCompletionCallbacks' =
                IF run # <<>> /\ run[Len(run)].ran.esc # NoException
                THEN m_listCompletionCallbacks ELSE <<>>
    /\ UNCHANGED <<m_tResult, m_lMutex, m_conCompletion, pc, ret, value, seen,
                   registered, func, esc, completions>>

\* ------------------------------------------------------- specifications
\* the process is gone once an undefined read ended it
Crashed == \E g \in Getters : ret[g] = Aborted

\* the callables the client threads of SpecTask subscribe
TaskCallbacks == {Callback("raw", "returns")}

\* a step of a client thread of the task: the process is still there, and
\* the event is not involved
TaskStep(A) == ~Crashed /\ A /\ UNCHANGED <<eventVars, resultVars, handleVars, genVars>>

\* =========================================================================
\*              Task objects and the coroutine frame  (ZExample3.cpp)
\* =========================================================================
\* the TaskPromise (result slot, mutex, callback list) is a member of the
\* coroutine frame; Task objects hold a coroutine_handle to the frame, or a
\* null handle
Handles == 1..NumHandles
Frame == "frame"
NullHandle == "null"

\* get_return_object(): Task{coroutine_handle::from_promise(*this)}; the
\* other Task objects are yet to be move-constructed
InitHandles ==
    /\ m_coroHandle = [h \in Handles |-> IF h = 1 THEN Frame ELSE NullHandle]
    /\ object = [h \in Handles |-> IF h = 1 THEN "alive" ELSE "unborn"]
    /\ frame = "alive"

\* Task(Task&& task): m_coroHandle(std::exchange(task.m_coroHandle, {}))
Task_Move(to, from) ==
    /\ object[to] = "unborn" /\ object[from] = "alive"
    /\ m_coroHandle' = [m_coroHandle EXCEPT ![to] = m_coroHandle[from],
                                            ![from] = NullHandle]
    /\ object' = [object EXCEPT ![to] = "alive"]
    /\ UNCHANGED frame

\* ~Task(): if (m_coroHandle) m_coroHandle.destroy();
Task_Dtor(h) ==
    /\ object[h] = "alive"
    /\ object' = [object EXCEPT ![h] = "destroyed"]
    /\ frame' = IF m_coroHandle[h] # NullHandle THEN "destroyed" ELSE frame
    /\ UNCHANGED m_coroHandle

\* a step of a thread inside the promise of a frame that is still there
FrameStep(A) == frame = "alive" /\ TaskStep(A)
\* a step on the Task objects
HandleStep(A) == A /\ UNCHANGED <<taskVars, eventVars, resultVars, genVars>>

\* =========================================================================
\*              async_manual_reset_event  (ZCoroutine.cpp)
\* =========================================================================
\* awaiter nodes are named by their addresses 1..NumWaiters; the event's own
\* address (`this`, the set sentinel) differs from all of them and from nullptr
Awaiters == 1..NumWaiters
SetState == NumWaiters + 1
Setters == 1..NumSetters

\* async_manual_reset_event(bool initiallySet): m_state(initiallySet ? this
\* : nullptr); the awaiting coroutines have evaluated `co_await event` up to
\* operator co_await()
InitEvent ==
    /\ m_state \in {NULL, SetState}
    /\ m_next = [w \in Awaiters |-> NULL]
    /\ oldValue = [w \in Awaiters |-> NULL]
    /\ wpc = [w \in Awaiters |-> "co_await"]
    /\ spc = [s \in Setters |-> "idle"]
    /\ waiters = [s \in Setters |-> NULL]
    /\ next = [s \in Setters |-> NULL]
    /\ rpc = "idle"
    /\ resumes = <<>>
    /\ regs = <<>>
    /\ expected = SetState

\* is_set(): m_state.load(acquire) == this
is_set == m_state = SetState

\* awaiter::await_ready(): return m_event.is_set(); true: the coroutine goes on
\* without suspending, false: await_suspend is called
await_ready(w) ==
    /\ wpc[w] = "co_await"
    /\ wpc' = [wpc EXCEPT ![w] = IF is_set THEN "not_suspended" ELSE "load"]
    /\ UNCHANGED <<m_state, m_next, oldValue, spc, waiters, next, rpc, resumes, regs, expected>>

\* await_suspend: void* oldValue = m_event.m_state.load(acquire)
await_suspend_Load(w) ==
    /\ wpc[w] = "load"
    /\ oldValue' = [oldValue EXCEPT ![w] = m_state]
    /\ wpc' = [wpc EXCEPT ![w] = "loop"]
    /\ UNCHANGED <<m_state, m_next, spc, waiters, next, rpc, resumes, regs, expected>>

\* a loop body that does not link the awaiter to the stack it read
await_suspend_Body_NoLink(w) ==
    /\ wpc[w] = "loop"
    /\ IF oldValue[w] = SetState
       THEN /\ wpc' = [wpc EXCEPT ![w] = "returned_false"]
            /\ oldValue' = [oldValue EXCEPT ![w] = NULL]
            /\ UNCHANGED m_next
       ELSE /\ m_next' = [m_next EXCEPT ![w] = NULL]
            /\ wpc' = [wpc EXCEPT ![w] = "cas"]
            /\ UNCHANGED oldValue
    /\ UNCHANGED <<m_state, spc, waiters, next, rpc, resumes, regs, expected>>

\* the body of the do-loop: if (oldValue == setState) return false;
\* m_next = static_cast<awaiter*>(oldValue);
\* (a local of a call that has returned is no longer there: it is kept as NULL)
await_suspend_Body(w) ==
    /\ wpc[w] = "loop"
    /\ IF oldValue[w] = SetState
       THEN /\ wpc' = [wpc EXCEPT ![w] = "returned_false"]
            /\ oldValue' = [oldValue EXCEPT ![w] = NULL]
            /\ UNCHANGED m_next
       ELSE /\ m_next' = [m_next EXCEPT ![w] = oldValue[w]]
            /\ wpc' = [wpc EXCEPT ![w] = "cas"]
            /\ UNCHANGED oldValue
    /\ UNCHANGED <<m_state, spc, waiters, next, rpc, resumes, regs, expected>>

\* a plain store in place of the compare-exchange: the cell takes this awaiter
\* whatever it holds by now
await_suspend_Store(w) ==
    /\ wpc[w] = "cas"
    /\ m_state' = w
    /\ wpc' = [wpc EXCEPT ![w] = "suspended"]
    /\ oldValue' = [oldValue EXCEPT ![w] = NULL]
    /\ regs' = Append(regs, w)
    /\ UNCHANGED <<m_next, spc, waiters, next, rpc, resumes, expected>>

\* m_state.compare_exchange_weak(oldValue, this, release, acquire): on success
\* the cell holds this awaiter and await_suspend returns true; on failure,
\* which may be spurious, oldValue receives the cell and the loop goes round
await_suspend_Cas(w) ==
    /\ wpc[w] = "cas"
    /\ \/ /\ m_state = oldValue[w]
          /\ m_state' = w
          /\ wpc' = [wpc EXCEPT ![w] = "suspended"]
          /\ oldValue' = [oldValue EXCEPT ![w] = NULL]
          /\ regs' = Append(regs, w)
       \/ /\ oldValue' = [oldValue EXCEPT ![w] = m_state]
          /\ wpc' = [wpc EXCEPT ![w] = "loop"]
          /\ UNCHANGED <<m_state, regs>>
    /\ UNCHANGED <<m_next, spc, waiters, next, rpc, resumes, expected>>

\* a load in place of the exchange: set() leaves the cell as it was
SetExchange_Load(old) == old

\* m_state.exchange(this, acq_rel): the value set() leaves in the cell
SetExchange(old) == SetState

\* set(): void* oldValue = m_state.exchange(this, acq_rel);
\* if (oldValue != this) waiters = static_cast<awaiter*>(oldValue)

set_Exchange(s) ==
    /\ spc[s] = "idle"
    /\ m_state' = SetExchange(m_state)
    /\ IF m_state # SetState
       THEN /\ waiters' = [waiters EXCEPT ![s] = m_state]
            /\ spc' = [spc EXCEPT ![s] = "walk"]
       ELSE /\ spc' = [spc EXCEPT ![s] = "done"]
            /\ UNCHANGED waiters
    /\ UNCHANGED <<m_next, oldValue, wpc, next, rpc, resumes, regs, expected>>

\* while (waiters != nullptr) { auto* next = waiters->m_next;
set_ReadNext(s) ==
    /\ spc[s] = "walk"
    /\ IF waiters[s] # NULL
       THEN /\ next' = [next EXCEPT ![s] = m_next[waiters[s]]]
            /\ spc' = [spc EXCEPT ![s] = "resume"]
       ELSE /\ spc' = [spc EXCEPT ![s] = "done"]
            /\ UNCHANGED next
    /\ UNCHANGED <<m_state, m_next, oldValue, wpc, waiters, rpc, resumes, regs, expected>>

\* a loop that takes the link from the node after resume(): the resumed
\* coroutine has destroyed its awaiter, so the read gives any pointer
set_Resume_ReadAfter(s) ==
    /\ spc[s] = "resume"
    /\ resumes' = Append(resumes, <<waiters[s], s>>)
    /\ wpc' = [wpc EXCEPT ![waiters[s]] = "resumed"]
    /\ \E dangling \in {NULL} \cup Awaiters :
            waiters' = [waiters EXCEPT ![s] = dangling]
    /\ next' = [next EXCEPT ![s] = NULL]
    /\ spc' = [spc EXCEPT ![s] = "walk"]
    /\ UNCHANGED <<m_state, m_next, oldValue, rpc, regs, expected>>

\* waiters->m_awaitingCoroutine.resume(); waiters = next; }
\* the resumed coroutine runs on inline and its awaiter is destroyed; `next`
\* goes out of scope at the end of the loop body
set_Resume(s) ==
    /\ spc[s] = "resume"
    /\ resumes' = Append(resumes, <<waiters[s], s>>)
    /\ wpc' = [wpc EXCEPT ![waiters[s]] = "resumed"]
    /\ waiters' = [waiters EXCEPT ![s] = next[s]]
    /\ next' = [next EXCEPT ![s] = NULL]
    /\ spc' = [spc EXCEPT ![s] = "walk"]
    /\ UNCHANGED <<m_state, m_next, oldValue, rpc, regs, expected>>

\* a reset() that stores nullptr whatever the cell holds
reset_Store ==
    /\ rpc = "idle"
    /\ m_state' = NULL
    /\ expected' = m_state
    /\ rpc' = IF m_state = SetState THEN "reset" ELSE "no_op"
    /\ UNCHANGED <<m_next, oldValue, wpc, spc, waiters, next, resumes, regs>>

\* reset(): void* oldValue = this;
\* m_state.compare_exchange_strong(oldValue, nullptr, acquire): the cell
\* becomes nullptr if it held `this`; if not, it stays and oldValue receives
\* what it holds
reset ==
    /\ rpc = "idle"
    /\ m_state' = IF m_state = SetState THEN NULL ELSE m_state
    /\ expected' = m_state
    /\ rpc' = IF m_state = SetState THEN "reset" ELSE "no_op"
    /\ UNCHANGED <<m_next, oldValue, wpc, spc, waiters, next, resumes, regs>>

\* =========================================================================
\*        Generator  (ZExample1.cpp, ZExample1-2.cpp, ZExample2.cpp)
\* =========================================================================
\* the three files hold the same has_next() and next(); ZExample1.cpp passes
\* the value out through await_transform, the others through yield_value
ExhaustedException == "ExhaustedException"

\* a coroutine function that co_yields a given sequence and then finishes
\* (Generator<T>::from and its like); point counts the co_yields behind the
\* suspension point, 0 being initial_suspend
Bodies == UNION {[1..n -> Values] : n \in 0..MaxYields}
NoGenerator == [made |-> FALSE, point |-> 0, done |-> FALSE]
Suspended_At(k, d) == [made |-> TRUE, point |-> k, done |-> d]

\* promise_type: T value{0}; bool is_ready = false;
InitGenerator ==
    /\ body = <<>>
    /\ handle = NoGenerator
    /\ promise = [value |-> DefaultValue, is_ready |-> FALSE]
    /\ pulls = <<>>

\* yield_value(_value) / await_transform(_value): value = _value;
\* is_ready = true; return suspend_always
yield_value(p, v) == [value |-> v, is_ready |-> TRUE]

\* handle.resume(): the coroutine runs to its next co_yield and suspends
\* there, or runs off its end (return_void, final_suspend) and is done
resume(h, p) ==
    IF h.point < Len(body)
    THEN [h |-> Suspended_At(h.point + 1, FALSE), p |-> yield_value(p, body[h.point + 1])]
    ELSE [h |-> Suspended_At(h.point, TRUE), p |-> p]

\* a has_next() that resumes the coroutine whether or not a value is ready
NotReady_Always(p) == TRUE

\* if (!handle.promise().is_ready)
NotReady(p) == ~p.is_ready

\* has_next(): if (handle.done()) return false; if (!is_ready)
\* handle.resume(); return !handle.done();
\* gives the state afterwards, the answer, and the resume() calls made
has_next(h, p) ==
    IF h.done THEN [h |-> h, p |-> p, out |-> FALSE, resumed |-> 0]
    ELSE LET r == IF NotReady(p) THEN resume(h, p) ELSE [h |-> h, p |-> p]
         IN [h |-> r.h, p |-> r.p, out |-> ~r.h.done,
             resumed |-> IF NotReady(p) THEN 1 ELSE 0]

\* next(): if (has_next()) { is_ready = false; return value; }
\* throw ExhaustedException();
next_(h, p) ==
    LET t == has_next(h, p)
    IN IF t.out
       THEN [h |-> t.h, p |-> [t.p EXCEPT !.is_ready = FALSE],
             out |-> Returns(t.p.value), resumed |-> t.resumed]
       ELSE [h |-> t.h, p |-> t.p, out |-> Throws(ExhaustedException),
             resumed |-> t.resumed]

\* auto gen = <coroutine function>(...): get_return_object, initial_suspend
Generator_Create(vs) ==
    /\ ~handle.made
    /\ body' = vs
    /\ handle' = Suspended_At(0, FALSE)
    /\ UNCHANGED <<promise, pulls>>

\* one entry of the log of calls: what has_next() answered, what next()
\* returned or threw, the resume() calls made, and whether the coroutine
\* was done when the call began
Pull(op, has, out, resumed, wasDone) ==
    [op |-> op, has |-> has, out |-> out, resumed |-> resumed, wasDone |-> wasDone]

\* gen.has_next()
Generator_has_next ==
    /\ handle.made /\ Len(pulls) < MaxPulls
    /\ LET t == has_next(handle, promise)
       IN /\ handle' = t.h
          /\ promise' = t.p
          /\ pulls' = Append(pulls,
                Pull("has_next", t.out, NotReturned, t.resumed, handle.done))
    /\ UNCHANGED body

\* gen.next()
Generator_next ==
    /\ handle.made /\ Len(pulls) < MaxPulls
    /\ LET t == next_(handle, promise)
       IN /\ handle' = t.h
          /\ promise' = t.p
          /\ pulls' = Append(pulls,
                Pull("next", t.out.kind = "returns", t.out, t.resumed, handle.done))
    /\ UNCHANGED body

GenStep(A) == A /\ UNCHANGED <<taskVars, eventVars, resultVars, handleVars>>

NextGenerator ==
    \/ \E vs \in Bodies : GenStep(Generator_Create(vs))
    \/ GenStep(Generator_has_next)
    \/ GenStep(Generator_next)

\* ------------------------------------------------------- specifications
Init == InitTask /\ InitEvent /\ InitResult /\ InitHandles /\ InitGenerator
\* the specifications of the task leave an unset event alone
TaskInit == Init /\ m_state = NULL

NextTask ==
    \/ TaskStep(ReturnValue_Lock(Completer))
    \/ \E v \in Values : TaskStep(return_value(Completer, v))
    \/ TaskStep(UnhandledException_Lock(Completer))
    \/ \E e \in Exceptions : TaskStep(unhandled_exception(Completer, e))
    \/ \E g \in Getters : TaskStep(GetResult_Lock(g))
    \/ \E g \in Getters : TaskStep(GetResult_Check(g))
    \/ \E g \in Getters : TaskStep(GetResult_SpuriousWake(g))
    \/ \E g \in Getters : TaskStep(GetResult_Reacquire(g))
    \/ \E g \in Getters : TaskStep(GetResult_Return(g))
    \/ \E s \in Subscribers, cb \in TaskCallbacks : TaskStep(OnCompleted_Lock(s, cb))
    \/ \E s \in Subscribers : TaskStep(OnCompleted_Check(s))
    \/ \E s \in Subscribers : TaskStep(OnCompleted_Call(s))

\* a step of a coroutine or thread using the event: the task is not involved
EventStep(A) == A /\ UNCHANGED <<taskVars, resultVars, handleVars, genVars>>

NextEvent ==
    \/ \E w \in Awaiters : EventStep(await_ready(w))
    \/ \E w \in Awaiters : EventStep(await_suspend_Load(w))
    \/ \E w \in Awaiters : EventStep(await_suspend_Body(w))
    \/ \E w \in Awaiters : EventStep(await_suspend_Cas(w))
    \/ \E s \in Setters : EventStep(set_Exchange(s))
    \/ \E s \in Setters : EventStep(set_ReadNext(s))
    \/ \E s \in Setters : EventStep(set_Resume(s))
    \/ EventStep(reset)

SpecTask == TaskInit /\ [][NextTask]_vars
SpecEvent == Init /\ [][NextEvent]_vars
SpecGenerator == TaskInit /\ [][NextGenerator]_vars

\* ---- blocking retrieval: threads in GetResult and one completion call, with
\* the scheduling of running threads
\* the completer calls return_value or unhandled_exception once
Once(A) == completions = 0 /\ A

NextRetrieve ==
    \/ TaskStep(Once(ReturnValue_Lock(Completer)))
    \/ \E v \in Values : TaskStep(return_value(Completer, v))
    \/ TaskStep(Once(UnhandledException_Lock(Completer)))
    \/ \E e \in Exceptions : TaskStep(unhandled_exception(Completer, e))
    \/ \E g \in Getters : TaskStep(GetResult_Lock(g))
    \/ \E g \in Getters : TaskStep(GetResult_Check(g))
    \/ \E g \in Getters : TaskStep(GetResult_SpuriousWake(g))
    \/ \E g \in Getters : TaskStep(GetResult_Reacquire(g))
    \/ \E g \in Getters : TaskStep(GetResult_Return(g))

\* a thread inside a member function keeps running: it leaves its critical
\* section, and a notified thread takes the mutex once it stays free.  No
\* thread has to start a call, and no wait has to return spuriously.
FairRetrieve ==
    /\ WF_vars(\E v \in Values : TaskStep(return_value(Completer, v)))
    /\ WF_vars(\E e \in Exceptions : TaskStep(unhandled_exception(Completer, e)))
    /\ \A g \in Getters :
        /\ WF_vars(TaskStep(GetResult_Check(g)))
        /\ WF_vars(TaskStep(GetResult_Reacquire(g)))
        /\ WF_vars(TaskStep(GetResult_Return(g)))

SpecRetrieve == TaskInit /\ [][NextRetrieve]_vars /\ FairRetrieve

\* ---- subscription: threads in OnCompleted and the completion calls
NextSubscribe ==
    \/ TaskStep(ReturnValue_Lock(Completer))
    \/ \E v \in Values : TaskStep(return_value(Completer, v))
    \/ TaskStep(UnhandledException_Lock(Completer))
    \/ \E e \in Exceptions : TaskStep(unhandled_exception(Completer, e))
    \/ \E s \in Subscribers, cb \in TaskCallbacks : TaskStep(OnCompleted_Lock(s, cb))
    \/ \E s \in Subscribers : TaskStep(OnCompleted_Check(s))
    \/ \E s \in Subscribers : TaskStep(OnCompleted_Call(s))

SpecSubscribe == TaskInit /\ [][NextSubscribe]_vars

\* ---- co_await of a task: every consumer coroutine is in TaskAwaiter's
\* await_suspend (await_ready answers false), which subscribes, through
\* Finally, a handler that resumes the consumer
ResumeConsumer == Callback("finally", "returns")

\* TaskAwaiter::await_suspend(handle): m_Task.Finally([handle] {
\* handle.resume(); }), which enters OnCompleted
await_suspend(s) == OnCompleted_Lock(s, ResumeConsumer)

NextAwait ==
    \/ TaskStep(ReturnValue_Lock(Completer))
    \/ \E v \in Values : TaskStep(return_value(Completer, v))
    \/ TaskStep(UnhandledException_Lock(Completer))
    \/ \E e \in Exceptions : TaskStep(unhandled_exception(Completer, e))
    \/ \E s \in Subscribers : TaskStep(await_suspend(s))
    \/ \E s \in Subscribers : TaskStep(OnCompleted_Check(s))
    \/ \E s \in Subscribers : TaskStep(OnCompleted_Call(s))

SpecAwait == TaskInit /\ [][NextAwait]_vars

\* ---- lifetime: Task objects are moved and destroyed while threads
\* subscribe to the promise and complete it
NextLifetime ==
    \/ FrameStep(ReturnValue_Lock(Completer))
    \/ \E v \in Values : FrameStep(return_value(Completer, v))
    \/ FrameStep(UnhandledException_Lock(Completer))
    \/ \E e \in Exceptions : FrameStep(unhandled_exception(Completer, e))
    \/ \E s \in Subscribers, cb \in TaskCallbacks : FrameStep(OnCompleted_Lock(s, cb))
    \/ \E s \in Subscribers : FrameStep(OnCompleted_Check(s))
    \/ \E s \in Subscribers : FrameStep(OnCompleted_Call(s))
    \/ \E to, from \in Handles : HandleStep(Task_Move(to, from))
    \/ \E h \in Handles : HandleStep(Task_Dtor(h))

SpecLifetime == TaskInit /\ [][NextLifetime]_vars

\* ---- Result on its own: construction and reads of NumResults objects
ResultStep(A) == A /\ UNCHANGED <<taskVars, eventVars, handleVars, genVars>>

NextResult ==
    \/ \E i \in ResultIds, v \in Values \cup {DefaultValue} :
            ResultStep(Result_FromValue(i, v))
    \/ \E i \in ResultIds, e \in Exceptions :
            ResultStep(Result_FromException(i, e))
    \/ \E i \in ResultIds : ResultStep(Result_GetOrThrow(i))

SpecResult == TaskInit /\ [][NextResult]_vars

\* ---- the composition layer: Then, Catching, Finally and raw callbacks
AllCallbacks == {Callback(k, b) : k \in Kinds, b \in Behaviours}

NextCompose ==
    \/ TaskStep(ReturnValue_Lock(Completer))
    \/ \E v \in Values : TaskStep(return_value(Completer, v))
    \/ TaskStep(UnhandledException_Lock(Completer))
    \/ \E e \in Exceptions : TaskStep(unhandled_exception(Completer, e))
    \/ \E s \in Subscribers, cb \in AllCallbacks : TaskStep(OnCompleted_Lock(s, cb))
    \/ \E s \in Subscribers : TaskStep(OnCompleted_Check(s))
    \/ \E s \in Subscribers : TaskStep(OnCompleted_Call(s))

SpecCompose == TaskInit /\ [][NextCompose]_vars

\* =========================================================================
\*                               Claims
\* =========================================================================
\* the invocations of subscriber s's callback, in order
CallsOf(s) == SelectSeq(calls, LAMBDA c : c.cb = s)
\* the invocations made by the completing thread, in order
FlushCalls == SelectSeq(calls, LAMBDA c : c.by = Completer)
\* the one completion call has returned
CompletedOnce == completions = 1 /\ pc[Completer] = "idle"
Queued(s) == \E i \in DOMAIN m_listCompletionCallbacks : m_listCompletionCallbacks[i] = s

\* C1 (early subscription): a callback subscribed while the task was pending
\* has been invoked exactly once, with the stored result, once the completion
\* call that followed has returned.
C1_EarlySubscription ==
    \A s \in Subscribers :
        (pc[s] = "oc_done" /\ ~seen[s].has /\ CompletedOnce)
            => /\ Len(CallsOf(s)) = 1
               /\ CallsOf(s)[1].arg = m_tResult.r

\* C2 (exactly-once completion): once the result slot is present no step
\* changes it: a further completion call does not overwrite the stored result.
C2_ExactlyOnceCompletion ==
    [][m_tResult.has => m_tResult' = m_tResult]_vars

\* C3 (broadcast wake): every thread blocked in GetResult's wait when the
\* single completion call stores the result eventually returns from
\* GetResult with the outcome of the stored result.
C3_BroadcastWake ==
    \A g \in Getters :
        (pc[g] \in {"gr_wait", "gr_woken"} /\ m_tResult.has)
            ~> (pc[g] = "gr_done" /\ ret[g] = GetOrThrow(m_tResult.r))

\* all the getters were blocked together and one completion call woke them
C3_Witness ==
    /\ m_tResult.has
    /\ \A g \in Getters : pc[g] = "gr_woken"

\* C4 (no lost subscription): once the single completion call and a
\* subscribe call have both returned, that subscription's callback has been
\* invoked exactly once; no callback is ever invoked twice.
C4_NoLostSubscription ==
    /\ \A s \in Subscribers : Len(CallsOf(s)) <= 1
    /\ CompletedOnce =>
        \A s \in Subscribers : pc[s] = "oc_done" => Len(CallsOf(s)) = 1

\* C7 (late subscription): a subscribe call that found the result present
\* has, when it returns, invoked its callback exactly once, on its own thread,
\* with the result it found, and has not queued it.
C7_LateSubscription ==
    \A s \in Subscribers :
        /\ (seen[s].has /\ pc[s] \in {"oc_call", "oc_done"}) => ~Queued(s)
        /\ (seen[s].has /\ pc[s] = "oc_done")
            => /\ Len(CallsOf(s)) = 1
               /\ CallsOf(s)[1].by = s
               /\ CallsOf(s)[1].arg = seen[s].r

C7_Witness ==
    \E s \in Subscribers :
        /\ pc[s] = "oc_done" /\ seen[s].has
        /\ seen[s].r.m_pException # NoException
        /\ Len(CallsOf(s)) = 1

\* C8 (registration-order delivery): once the single completion call has
\* returned, the completing thread has invoked the queued callbacks in the
\* order they were registered, each once with the stored result, the pending
\* list is empty, and a GetResult that has returned gave the same result.
C8_RegistrationOrder ==
    CompletedOnce =>
        /\ m_listCompletionCallbacks = <<>>
        /\ [i \in 1..Len(FlushCalls) |-> FlushCalls[i].cb] = registered
        /\ \A i \in 1..Len(FlushCalls) : FlushCalls[i].arg = m_tResult.r
        /\ \A g \in Getters : pc[g] = "gr_done" => ret[g] = GetOrThrow(m_tResult.r)

\* C9 (blocking retrieval): GetResult is past its wait only when the result
\* slot is present; it never reads an absent slot and what it yields is the
\* outcome of the stored result.
C9_BlockingRetrieval ==
    \A g \in Getters :
        /\ pc[g] = "gr_read" => m_tResult.has
        /\ pc[g] = "gr_done" =>
            /\ m_tResult.has
            /\ completions = 1 => ret[g] = GetOrThrow(m_tResult.r)

\* C10 (on_success): the wrapper built by Then calls f exactly when the
\* result is a success, with its value; on a failure of any kind f is not
\* called and no exception leaves the wrapper.
C10_OnSuccess ==
    \A i \in DOMAIN calls :
        func[calls[i].cb].kind = "then" =>
            LET success == calls[i].arg.m_pException = NoException
            IN /\ calls[i].ran.called <=> success
               /\ success => calls[i].ran.v = calls[i].arg.m_tValue
               /\ ~success => calls[i].ran.esc = NoException

\* C11 (on_failure): the wrapper built by Catching calls f, with the stored
\* failure, exactly when the result is a failure of any kind, never on a
\* success, and the stored failure does not leave the wrapper.
C11_OnFailure ==
    \A i \in DOMAIN calls :
        func[calls[i].cb].kind = "catching" =>
            LET failure == calls[i].arg.m_pException # NoException
            IN /\ calls[i].ran.called <=> failure
               /\ failure => calls[i].ran.e = calls[i].arg.m_pException
               /\ func[calls[i].cb].behav = "returns" => calls[i].ran.esc = NoException

\* C12 (failure routing): unhandled_exception stores the failure it was
\* called with and leaves no thread blocked in wait; once it has taken the
\* lock the task does not stay pending, and every getter that was blocked
\* returns from GetResult by re-raising the stored failure.
C12_FailureRouting ==
    /\ [][(pc[Completer] = "ue_body" /\ pc'[Completer] = "idle")
            => /\ m_tResult'.has
               /\ m_tResult'.r.m_pException \in Exceptions
               /\ m_conCompletion' = {}]_vars
    /\ (pc[Completer] = "ue_body") ~> m_tResult.has
    /\ \A g \in Getters :
        (pc[g] \in {"gr_wait", "gr_woken"} /\ m_tResult.has
            /\ m_tResult.r.m_pException # NoException)
            ~> (pc[g] = "gr_done" /\ ret[g] = Throws(m_tResult.r.m_pException))

\* every getter was blocked, the failure was stored, every getter re-raised it
C12_Witness ==
    /\ m_tResult.has /\ m_tResult.r.m_pException # NoException
    /\ m_conCompletion = {}
    /\ \A g \in Getters :
        pc[g] = "gr_done" /\ ret[g] = Throws(m_tResult.r.m_pException)

\* ---------------------------------------------------------------- event
\* how often awaiter w's coroutine was resumed
ResumesOf(w) == Cardinality({i \in DOMAIN resumes : resumes[i][1] = w})
\* no set() is between its exchange and the end of its walk
NoSetWalking == \A s \in Setters : spc[s] \in {"idle", "done"}

\* C5 (event registration race): with no reset() called, whenever the event
\* reads set and no set() is still walking its captured list, no registration
\* that returned true is left unresumed; each ended as "not suspended" or as
\* "suspended, then resumed".
C5_RegistrationRace ==
    (rpc = "idle" /\ m_state = SetState /\ NoSetWalking)
        => \A w \in Awaiters : wpc[w] # "suspended"

\* a registration lost the race and returned false, another was suspended
\* and resumed, and every set() has finished
C5_Witness ==
    /\ rpc = "idle" /\ m_state = SetState /\ NoSetWalking
    /\ \E w \in Awaiters : wpc[w] = "returned_false"
    /\ \E w \in Awaiters : wpc[w] = "resumed"

\* C6 (event idempotence): with no reset() called, the event reads set after
\* every set() call that has returned, no awaiter is resumed twice, only one
\* set() call resumes anybody, and once all set() calls have returned every
\* registered awaiter has been resumed exactly once.
C6_SetIdempotent ==
    rpc = "idle" =>
        /\ \A s \in Setters : spc[s] = "done" => is_set
        /\ \A w \in Awaiters : ResumesOf(w) <= 1
        /\ \A i, j \in DOMAIN resumes : resumes[i][2] = resumes[j][2]
        /\ (\A s \in Setters : spc[s] = "done") =>
               \A w \in Awaiters :
                   /\ wpc[w] # "suspended"
                   /\ wpc[w] = "resumed" => ResumesOf(w) = 1

\* set() was called more than once, all calls returned, awaiters were resumed
C6_Witness ==
    /\ rpc = "idle"
    /\ \A s \in Setters : spc[s] = "done"
    /\ Len(resumes) >= 2

\* C13 (set is sticky): a cell that reads as the set sentinel is moved away
\* from it only by the step of reset(); while it reads set, await_ready
\* answers true, no registration succeeds, and an await_suspend that has
\* read the sentinel returns false.
C13_SetSticky ==
    [][/\ (m_state = SetState /\ m_state' # SetState)
            => (rpc = "idle" /\ rpc' = "reset" /\ m_state' = NULL)
       /\ \A w \in Awaiters :
            /\ (m_state = SetState /\ wpc[w] = "co_await" /\ wpc'[w] # "co_await")
                    => wpc'[w] = "not_suspended"
            /\ (m_state = SetState /\ wpc[w] # "suspended")
                    => wpc'[w] # "suspended"
            /\ (wpc[w] = "loop" /\ oldValue[w] = SetState /\ wpc'[w] # "loop")
                    => wpc'[w] = "returned_false"]_vars

\* with the cell set and no reset() called, one registration was about to
\* swap itself in and came back with false, and another did not suspend
C13_Witness ==
    /\ rpc = "idle" /\ is_set
    /\ \E w \in Awaiters : wpc[w] = "returned_false" /\ m_next[w] = NULL
    /\ \E w \in Awaiters : wpc[w] = "not_suspended"

\* C14 (Result round-trip): GetOrThrow on a Result built from value v returns
\* v, on a Result built from exception e it throws e; a read leaves the
\* Result as the constructor made it, so every read of one object gives the
\* same outcome.
C14_RoundTrip ==
    /\ [](\A i \in ResultIds : \A k \in DOMAIN reads[i] :
            /\ built[i].kind = "value" => reads[i][k] = Returns(built[i].v)
            /\ built[i].kind = "exception" => reads[i][k] = Throws(built[i].e))
    /\ [][\A i \in ResultIds :
            built[i] # NoInput => results'[i] = results[i]]_vars

\* one object built from a value and one built from an exception, each read
\* as often as the bound allows
C14_Witness ==
    /\ \E i \in ResultIds : built[i].kind = "value" /\ Len(reads[i]) = MaxReads
    /\ \E i \in ResultIds : built[i].kind = "exception" /\ Len(reads[i]) = MaxReads

\* position of awaiter w in a sequence of awaiters, 0 if it is not there
RegIndex(w) ==
    IF \E i \in DOMAIN regs : regs[i] = w
    THEN CHOOSE i \in DOMAIN regs : regs[i] = w ELSE 0
ResumeIndex(w) ==
    IF \E i \in DOMAIN resumes : resumes[i][1] = w
    THEN CHOOSE i \in DOMAIN resumes : resumes[i][1] = w ELSE 0

\* C15 (event wake order and coverage): only registrations that returned
\* true are resumed, each at most once; two awaiters resumed by the same
\* set() call are resumed in the reverse of the order in which they
\* registered; and once the event reads set and no set() is still walking,
\* every registration that returned true has been resumed exactly once.
C15_WakeOrder ==
    /\ \A i \in DOMAIN resumes : RegIndex(resumes[i][1]) # 0
    /\ \A w \in Awaiters : ResumesOf(w) <= 1
    /\ \A i, j \in DOMAIN resumes :
        (i < j /\ resumes[i][2] = resumes[j][2])
            => RegIndex(resumes[i][1]) > RegIndex(resumes[j][1])
    /\ (is_set /\ NoSetWalking)
        => \A i \in DOMAIN regs : ResumesOf(regs[i]) = 1

\* all awaiters registered one after another on the unset event, and one
\* set() call resumed them all, the last registered first
C15_Witness ==
    /\ Len(regs) = NumWaiters
    /\ Len(resumes) = NumWaiters
    /\ NoSetWalking
    /\ \A i \in DOMAIN resumes :
        /\ resumes[i][2] = resumes[1][2]
        /\ resumes[i][1] = regs[NumWaiters + 1 - i]

\* C16 (callbacks never run under the task lock): at every callback
\* invocation the invoking thread does not hold m_lMutex; a thread between
\* its unlock and its callback, or past it, is not the owner of the mutex.
C16_NotUnderLock ==
    /\ \A i \in DOMAIN calls : ~calls[i].locked
    /\ \A s \in Subscribers : pc[s] \in {"oc_call", "oc_done"} => m_lMutex # s

\* a subscriber ran its callback on the fast path while another thread was
\* inside the critical section of the same task
C16_Witness ==
    \E i \in DOMAIN calls :
        /\ ~calls[i].locked
        /\ calls[i].by \in Subscribers
        /\ m_lMutex \in Threads \ {calls[i].by}

\* handle.resume() calls made for the consumer s
Resumptions(s) ==
    SelectSeq(calls, LAMBDA c : c.cb = s /\ func[s] = ResumeConsumer /\ c.ran.called)

\* C17 (suspension integration): a consumer that awaited the task is resumed
\* at most once and only with a result in the slot, so that await_resume's
\* GetResult does not wait; and once its await_suspend has returned and the
\* task has been completed, it has been resumed exactly once, whether the
\* task was complete or pending when it awaited.
C17_AwaitResumed ==
    \A s \in Subscribers :
        /\ Len(Resumptions(s)) <= 1
        /\ Len(Resumptions(s)) = 1 => m_tResult.has
        /\ (pc[s] = "oc_done" /\ m_tResult.has /\ pc[Completer] = "idle")
            => Len(Resumptions(s)) = 1

\* awaiters whose registration returned true and that no set() has resumed
Suspended == {w \in Awaiters : wpc[w] = "suspended"}

\* C18 (reset frame): the step of reset() moves the cell from the set
\* sentinel to nullptr and changes it in no other case, and it never writes
\* an awaiter's link; so after a reset() that found the event unset, with or
\* without waiters, every awaiter registered before it is resumed by the
\* time the event reads set and no set() is walking.
C18_ResetFrame ==
    /\ [][(rpc = "idle" /\ rpc' # "idle")
            => /\ m_state' = (IF m_state = SetState THEN NULL ELSE m_state)
               /\ m_next' = m_next
               /\ wpc' = wpc]_vars
    /\ []((rpc = "no_op" /\ is_set /\ NoSetWalking)
            => /\ Suspended = {}
               /\ expected \in Awaiters => ResumesOf(expected) = 1)

\* reset() ran on an unset event whose cell was the head of a stack of two
\* waiters, and the set() that followed resumed them
C18_Witness ==
    /\ rpc = "no_op" /\ expected \in Awaiters
    /\ m_next[expected] \in Awaiters
    /\ is_set /\ NoSetWalking
    /\ \A w \in Awaiters : wpc[w] = "resumed"

\* C19 (task state lifetime): the coroutine frame that holds the task state
\* is destroyed only by the destructor of a Task object whose handle is not
\* null, and when it is destroyed no Task object still refers to it, no
\* subscribed continuation is queued in it, and its computation has
\* completed.
C19_StateLifetime ==
    /\ (frame = "destroyed") =>
            \E h \in Handles : object[h] = "destroyed" /\ m_coroHandle[h] = Frame
    /\ (frame = "destroyed") =>
            /\ \A h \in Handles : object[h] = "alive" => m_coroHandle[h] = NullHandle
            /\ m_listCompletionCallbacks = <<>>
            /\ m_tResult.has
            /\ pc[Completer] = "idle"

\* the nodes reached from pointer h through m_next, at most n of them; a
\* pointer that is no awaiter ends the walk
RECURSIVE ChainFrom(_, _)
ChainFrom(h, n) ==
    IF h \notin Awaiters \/ n = 0 THEN <<>>
    ELSE <<h>> \o ChainFrom(m_next[h], n - 1)

\* the pointer after the last node reached from h
RECURSIVE ChainEnd(_, _)
ChainEnd(h, n) ==
    IF h \notin Awaiters \/ n = 0 THEN h ELSE ChainEnd(m_next[h], n - 1)

NodesOf(seq) == {seq[i] : i \in DOMAIN seq}
\* h heads a finite, acyclic, null-terminated list of nodes
WellFormedList(h) ==
    LET c == ChainFrom(h, NumWaiters + 1)
    IN /\ ChainEnd(h, NumWaiters + 1) = NULL
       /\ Len(c) <= NumWaiters
       /\ Cardinality(NodesOf(c)) = Len(c)

\* the list the cell heads, and the rest of the list a set() call has
\* captured and not yet walked
CellList == IF m_state = SetState THEN <<>> ELSE ChainFrom(m_state, NumWaiters + 1)
CapturedList(s) ==
    IF spc[s] \in {"walk", "resume"} THEN ChainFrom(waiters[s], NumWaiters + 1)
    ELSE <<>>

\* C20 (event cell well-formedness): the cell is nullptr, the set sentinel,
\* or the head of a finite, acyclic, null-terminated list of awaiters; every
\* node of that list registered with true and has not been resumed; and no
\* node is twice in the list, or both in it and in a list that a set() call
\* has captured.
C20_CellWellFormed ==
    /\ m_state \in {NULL, SetState} \cup Awaiters
    /\ m_state # SetState => WellFormedList(m_state)
    /\ \A w \in NodesOf(CellList) : wpc[w] = "suspended" /\ RegIndex(w) # 0
    /\ \A s \in Setters :
        /\ spc[s] \in {"walk", "resume"} => WellFormedList(waiters[s])
        /\ NodesOf(CapturedList(s)) \cap NodesOf(CellList) = {}
        /\ \A w \in NodesOf(CapturedList(s)) : wpc[w] = "suspended"
        /\ \A t \in Setters \ {s} :
            NodesOf(CapturedList(s)) \cap NodesOf(CapturedList(t)) = {}

\* after a set() and a reset(), the cell heads a list of one awaiter while a
\* set() call is still walking the list of another that it captured
C20_Witness ==
    /\ Len(CellList) >= 1
    /\ \E s \in Setters : Len(CapturedList(s)) >= 1

\* awaiters whose co_await did not suspend: await_ready answered true or
\* await_suspend returned false
NotRegistered == {w \in Awaiters : wpc[w] \in {"not_suspended", "returned_false"}}

\* C21 (no use of a waiter after its wake): set() reads the link of a node
\* and resumes it only while the node has not been resumed, after resume()
\* it goes on with a node that is still suspended or stops, and it writes no
\* link; and the node of a co_await that did not suspend is in no list, that
\* of the cell or a captured one.
C21_NoUseAfterWake ==
    /\ [][\A s \in Setters :
            /\ (spc[s] = "walk" /\ spc'[s] = "resume")
                    => wpc[waiters[s]] = "suspended"
            /\ (spc[s] = "resume" /\ spc'[s] = "walk")
                    => /\ wpc[waiters[s]] = "suspended"
                       /\ waiters'[s] # waiters[s]
                       /\ waiters'[s] # NULL => wpc'[waiters'[s]] = "suspended"
            /\ spc'[s] # spc[s] => m_next' = m_next]_vars
    /\ [](\A w \in NotRegistered :
            /\ w \notin NodesOf(CellList)
            /\ \A s \in Setters : w \notin NodesOf(CapturedList(s)))

\* a set() call has resumed the head of the list it captured and stands
\* before the next node, which is still suspended
C21_Witness ==
    \E s \in Setters :
        /\ spc[s] = "walk"
        /\ \E i \in DOMAIN resumes : resumes[i][2] = s
        /\ waiters[s] \in Awaiters /\ wpc[waiters[s]] = "suspended"

\* invocations of a Then wrapper whose handler f threw a std::exception
ThrowingThenCalls ==
    {i \in DOMAIN calls :
        /\ func[calls[i].cb] = Callback("then", "throws_std")
        /\ calls[i].ran.called}

\* C22 (handler exceptions are contained): when the handler passed to Then
\* throws an exception derived from std::exception, nothing leaves the
\* wrapper into the thread that runs it, the stored result is the one the
\* wrapper was given, and every other subscription whose OnCompleted call
\* has returned on the completed task has been delivered.
C22_HandlerContained ==
    \A i \in ThrowingThenCalls :
        /\ calls[i].ran.esc = NoException
        /\ esc[calls[i].cb] = NoException
        /\ completions = 1 => m_tResult.r = calls[i].arg
        /\ pc[Completer] = "idle" =>
            \A s \in Subscribers \ {calls[i].cb} :
                pc[s] = "oc_done" => CallsOf(s) # <<>>

\* the number of values that the next() calls before call i have returned
ConsumedBefore(i) ==
    Cardinality({k \in 1..(i - 1) :
        pulls[k].op = "next" /\ pulls[k].out.kind = "returns"})

\* C23 (generator pull protocol): whatever the order of has_next() and
\* next() calls, the k-th next() that returns a value returns the k-th value
\* of the coroutine, has_next() answers true exactly while values are left
\* and consumes none, has_next() calls with no next() between them resume
\* the coroutine at most once, and once all values are consumed has_next()
\* answers false and next() throws ExhaustedException, with no resume() of
\* the finished coroutine.
C23_PullProtocol ==
    /\ \A i \in DOMAIN pulls :
        LET c == ConsumedBefore(i)
        IN /\ pulls[i].op = "has_next" => pulls[i].has = (c < Len(body))
           /\ pulls[i].op = "next" =>
                pulls[i].out = (IF c < Len(body) THEN Returns(body[c + 1])
                                ELSE Throws(ExhaustedException))
           /\ pulls[i].wasDone => pulls[i].resumed = 0
    /\ \A i, j \in DOMAIN pulls :
        (i < j /\ \A k \in i..j : pulls[k].op = "has_next")
            => pulls[i].resumed + pulls[j].resumed <= 1
    /\ Len(SelectSeq(pulls, LAMBDA c : c.resumed = 1)) <= Len(body) + 1
    /\ handle.done => handle.point = Len(body)

\* has_next() twice, then both values of a two-value generator taken by
\* next(), then a next() that throws
C23_Witness ==
    /\ Len(body) = 2 /\ Len(pulls) = 5
    /\ pulls[1].op = "has_next" /\ pulls[2].op = "has_next"
    /\ pulls[3].out = Returns(body[1]) /\ pulls[4].out = Returns(body[2])
    /\ pulls[5].op = "next" /\ pulls[5].out = Throws(ExhaustedException)

====
